---- MODULE Spec2Model ----
(***************************************************************************)
(* Chat-transcript state of the finance assistant UI (src/all.py):         *)
(* the Message Store (st.session_state["messages"]), history               *)
(* reconstruction on a session switch, the transcript exporter and the     *)
(* tool call renderer.                                                     *)
(***************************************************************************)
EXTENDS Integers, Sequences, FiniteSets, TLC

VARIABLES
    memory,                         \* storage: session id -> persisted memory
    session_data,                   \* storage: session id -> session data
    agentic_rag_agent,              \* session id the active agent is bound to
    agentic_rag_agent_session_id,   \* active session id held in UI state
    messages,                       \* st.session_state["messages"]
    choice,                         \* index of the selectbox entry the user chose
    selected_session_id,            \* id the selector resolved the entry to
    outcome,                        \* how the last interaction ended
    sidebar,                        \* last sidebar notice
    chat_text,                      \* last return value of export_chat_history
    tools_in,                       \* argument of display_tool_calls
    titles                          \* expander titles display_tool_calls rendered

vars == << memory, session_data, agentic_rag_agent, agentic_rag_agent_session_id,
           messages, choice, selected_session_id, outcome,
           sidebar, chat_text, tools_in, titles >>

-----------------------------------------------------------------------------
(* Bounds of the model *)

MaxRuns == 2        \* runs in a persisted run log
MaxMsgs == 2        \* entries in a multi-message run
MaxStore == 2       \* messages in a store handed to the exporter
MaxTools == 1       \* tool calls handed to the renderer
MaxNameLen == 3     \* characters of a tool name

-----------------------------------------------------------------------------
(* Python values.  A dict key that is absent is Missing; None is None.     *)

None == [t |-> "NoneType", v |-> ""]
Missing == [t |-> "missing", v |-> ""]
Str(s) == [t |-> "str", v |-> s]

NoneSeq == [t |-> "NoneType", v |-> << >>]
MissingSeq == [t |-> "missing", v |-> << >>]
List(s) == [t |-> "list", v |-> s]

\* dict.get(key): an absent key reads as None
Get(x) == IF x.t = "missing" THEN [x EXCEPT !.t = "NoneType"] ELSE x

\* truth value of a Python object
Truthy(x) ==
    \/ x.t = "str" /\ x.v # ""
    \/ x.t = "list" /\ x.v # << >>
    \/ x.t = "dict"

\* str(x) as an f-string formats it
Format(x) == IF x.t = "str" THEN x.v ELSE "None"

\* the sequences over S of length at most n
SeqsUpTo(S, n) == UNION {[1..len -> S] : len \in 0..n}

-----------------------------------------------------------------------------
(* Message Store *)

\* add_message: the store after appending one message; a store that is
\* absent or not a list is first set to the empty list
add_message(store, role, content, tool_calls, image) ==
    LET base == IF store.t = "list" THEN store.v ELSE << >>
        message == [role |-> role, content |-> content, tool_calls |-> tool_calls]
    IN  List(Append(base,
                    IF Truthy(image)
                    THEN [role |-> role, content |-> content,
                          tool_calls |-> tool_calls, image |-> image]
                    ELSE message))

-----------------------------------------------------------------------------
(* History reconstruction (the loop over the selected session's runs).     *)
(* A reconstruction state is the store, the seen-set and whether an        *)
(* exception left the loop.                                                *)

\* the deduplication key f"{role}:{content}"
msg_id(role, content) == role \o ":" \o Format(content)

\* tool calls attached to an assistant entry of a multi-message run
assistant_tool_calls(run, msg) ==
    IF msg.tool_calls.t # "missing" THEN msg.tool_calls
    ELSE IF msg.metrics /\ Truthy(Get(run.tools)) THEN Get(run.tools)
    ELSE NoneSeq

\* reconstruct_msg without the check of the seen-set
reconstruct_msg_unseen(st, run, msg) ==
    IF st.raised THEN st
    ELSE IF msg.t # "dict" THEN [st EXCEPT !.raised = TRUE]
    ELSE LET msg_role == msg.role
             msg_content == Get(msg.content)
         IN  IF ~Truthy(msg_content) \/ msg_role = "system" THEN st
             ELSE [st EXCEPT
                     !.seen = @ \cup {msg_id(msg_role, msg_content)},
                     !.messages =
                         IF msg_role = "assistant"
                         THEN add_message(@, msg_role, msg_content,
                                          assistant_tool_calls(run, msg), None)
                         ELSE add_message(@, msg_role, msg_content, NoneSeq, None)]

\* reconstruct_msg without the check of the role
reconstruct_msg_system(st, run, msg) ==
    IF st.raised THEN st
    ELSE IF msg.t # "dict" THEN [st EXCEPT !.raised = TRUE]
    ELSE LET msg_role == msg.role
             msg_content == Get(msg.content)
         IN  IF ~Truthy(msg_content) THEN st
             ELSE IF msg_id(msg_role, msg_content) \in st.seen THEN st
             ELSE [st EXCEPT
                     !.seen = @ \cup {msg_id(msg_role, msg_content)},
                     !.messages =
                         IF msg_role = "assistant"
                         THEN add_message(@, msg_role, msg_content,
                                          assistant_tool_calls(run, msg), None)
                         ELSE add_message(@, msg_role, msg_content, NoneSeq, None)]

\* one entry of run["messages"]
reconstruct_msg(st, run, msg) ==
    IF st.raised THEN st
    ELSE IF msg.t # "dict" THEN [st EXCEPT !.raised = TRUE]
    ELSE LET msg_role == msg.role
             msg_content == Get(msg.content)
         IN  IF ~Truthy(msg_content) \/ msg_role = "system" THEN st
             ELSE IF msg_id(msg_role, msg_content) \in st.seen THEN st
             ELSE [st EXCEPT
                     !.seen = @ \cup {msg_id(msg_role, msg_content)},
                     !.messages =
                         IF msg_role = "assistant"
                         THEN add_message(@, msg_role, msg_content,
                                          assistant_tool_calls(run, msg), None)
                         ELSE add_message(@, msg_role, msg_content, NoneSeq, None)]

RECURSIVE reconstruct_msgs(_, _, _)
reconstruct_msgs(st, run, msgs) ==
    IF msgs = << >> THEN st
    ELSE reconstruct_msgs(reconstruct_msg(st, run, Head(msgs)), run, Tail(msgs))

\* the user message of a single-exchange run
reconstruct_user(st, run) ==
    LET user_msg == run.message.content
    IN  IF msg_id("user", user_msg) \notin st.seen
        THEN [st EXCEPT !.seen = @ \cup {msg_id("user", user_msg)},
                        !.messages = add_message(@, "user", user_msg, NoneSeq, None)]
        ELSE st

\* reconstruct_reply that leaves the run's tools out
reconstruct_reply_notools(st, run) ==
    IF run.content.t # "missing" /\ Truthy(run.content)
    THEN LET asst_msg == run.content
         IN  IF msg_id("assistant", asst_msg) \notin st.seen
             THEN [st EXCEPT !.seen = @ \cup {msg_id("assistant", asst_msg)},
                             !.messages = add_message(@, "assistant", asst_msg,
                                                      NoneSeq, None)]
             ELSE st
    ELSE st

\* the assistant reply of a single-exchange run
reconstruct_reply(st, run) ==
    IF run.content.t # "missing" /\ Truthy(run.content)
    THEN LET asst_msg == run.content
         IN  IF msg_id("assistant", asst_msg) \notin st.seen
             THEN [st EXCEPT !.seen = @ \cup {msg_id("assistant", asst_msg)},
                             !.messages = add_message(@, "assistant", asst_msg,
                                                      Get(run.tools), None)]
             ELSE st
    ELSE st

\* one run of the log
reconstruct_run(st, run) ==
    IF st.raised THEN st
    ELSE IF run.messages.t # "missing"
    THEN IF run.messages.t = "list"
         THEN reconstruct_msgs(st, run, run.messages.v)
         ELSE [st EXCEPT !.raised = TRUE]
    ELSE IF run.message.t = "dict" /\ run.message.content.t # "missing"
    THEN reconstruct_reply(reconstruct_user(st, run), run)
    ELSE st

RECURSIVE reconstruct_runs(_, _)
reconstruct_runs(st, runs) ==
    IF runs = << >> THEN st
    ELSE reconstruct_runs(reconstruct_run(st, Head(runs)), Tail(runs))

\* the whole pass: from the reset store and an empty seen-set
reconstruct(store, runs) ==
    reconstruct_runs([messages |-> store, seen |-> {}, raised |-> FALSE], runs)

-----------------------------------------------------------------------------
(* Persisted data the model draws from *)

ToolCall(name) == [t |-> "dict", name |-> name]
SomeTools == List(<< ToolCall(Str("get_price")) >>)

Msg(role, content, tool_calls, metrics) ==
    [t |-> "dict", role |-> role, content |-> content,
     tool_calls |-> tool_calls, metrics |-> metrics]

\* an entry of run["messages"] that is not a mapping
BadMsg == [t |-> "str", role |-> "", content |-> Missing,
           tool_calls |-> MissingSeq, metrics |-> FALSE]

\* entries of the multi-message runs of the large run logs
Msgs ==
    { Msg("user", Str("hi"), MissingSeq, FALSE),
      Msg("system", Str("hi"), MissingSeq, FALSE),
      Msg("assistant", Str("yo"), MissingSeq, TRUE) }

NoMessage == [t |-> "missing", content |-> Missing]

MultiRun(msgs, tools) ==
    [messages |-> msgs, message |-> NoMessage, content |-> Missing, tools |-> tools]

SingleRun(user, reply, tools) ==
    [messages |-> MissingSeq, message |-> [t |-> "dict", content |-> user],
     content |-> reply, tools |-> tools]

MultiRuns == {MultiRun(List(ms), SomeTools) : ms \in SeqsUpTo(Msgs, MaxMsgs) \ {<< >>}}

\* a multi-message run whose entries have empty, null or no content
EmptyEntries ==
    MultiRun(List(<< Msg("user", Str(""), MissingSeq, FALSE),
                     Msg("assistant", None, SomeTools, FALSE),
                     Msg("user", Missing, MissingSeq, FALSE) >>), MissingSeq)

SingleRuns ==
    { SingleRun(Str("hi"), Str("yo"), SomeTools),
      SingleRun(Str(""), Str("yo"), SomeTools),
      SingleRun(Str("None"), Str("yo"), MissingSeq),
      SingleRun(None, Missing, MissingSeq),
      SingleRun(Str("None"), Missing, MissingSeq),
      SingleRun(Str("hi"), Str(""), MissingSeq),
      SingleRun(Missing, Str("yo"), MissingSeq) }

\* runs without a recognizable shape, and a run whose "messages" is null
OtherRuns ==
    { [messages |-> MissingSeq, message |-> NoMessage, content |-> Str("yo"),
       tools |-> MissingSeq],
      [messages |-> MissingSeq, message |-> [t |-> "str", content |-> Missing],
       content |-> Str("yo"), tools |-> MissingSeq],
      MultiRun(NoneSeq, MissingSeq),
      EmptyEntries }

Runs == MultiRuns \cup SingleRuns \cup OtherRuns

RunLogs == SeqsUpTo(Runs, MaxRuns)

\* runs of the logs the session selector is exercised on
FewRuns ==
    { SingleRun(Str("hi"), Str("yo"), SomeTools),
      MultiRun(List(<< Msg("assistant", Str("yo"), SomeTools, FALSE), BadMsg,
                       Msg("user", Str("hi"), MissingSeq, FALSE) >>), MissingSeq),
      MultiRun(NoneSeq, MissingSeq) }

FewLogs == SeqsUpTo(FewRuns, MaxRuns)

Memory(runs) == [t |-> "dict", runs |-> runs]
NoMemory == [t |-> "NoneType", runs |-> MissingSeq]

Memories(logs) == {NoMemory, Memory(MissingSeq)} \cup {Memory(List(log)) : log \in logs}

\* the log of the second session: one exchange found in no other log
OldLog == << SingleRun(Str("old question"), Str("old answer"), MissingSeq) >>

SessionData(name) == [t |-> "dict", session_name |-> name]
NoSessionData == [t |-> "NoneType", session_name |-> Missing]

\* session ids in storage order, and their owners
SessionIds == << "s1", "s3", "s2" >>
Owner == [s \in {"s1", "s2", "s3"} |->
             IF s = "s3" THEN "bob" ELSE "alice"]
UserIds == {"alice", "carol"}

SessionDatas ==
    { [s \in {"s1", "s2", "s3"} |-> NoSessionData],
      [s \in {"s1", "s2", "s3"} |->
          IF s = "s2" THEN SessionData(Str("s1"))
          ELSE IF s = "s3" THEN SessionData(Str("s2")) ELSE SessionData(Missing)],
      [s \in {"s1", "s2", "s3"} |->
          IF s = "s3" THEN SessionData(Str("")) ELSE SessionData(Str("Budget"))] }

-----------------------------------------------------------------------------
(* Session selector *)

\* agent.storage.get_all_sessions()
get_all_sessions ==
    [i \in 1..Len(SessionIds) |->
        [session_id |-> SessionIds[i], user_id |-> Owner[SessionIds[i]],
         session_data |-> session_data[SessionIds[i]],
         memory |-> memory[SessionIds[i]]]]

user_sessions(agent_sessions, user_id) ==
    SelectSeq(agent_sessions, LAMBDA session : session.user_id = user_id)

display_name(session) ==
    LET name == IF Truthy(session.session_data)
                THEN Get(session.session_data.session_name)
                ELSE None
    IN  IF Truthy(name) THEN name.v ELSE session.session_id

session_options(sessions) ==
    [i \in 1..Len(sessions) |->
        [id |-> sessions[i].session_id, display |-> display_name(sessions[i])]]

\* next(s["id"] for s in session_options if s["display"] == selected_session)
resolve_session_id(options, selected_session) ==
    LET first == CHOOSE i \in 1..Len(options) :
                    /\ options[i].display = selected_session
                    /\ \A j \in 1..(i - 1) : options[j].display # selected_session
    IN  options[first].id

\* next((s for s in user_sessions if s.session_id == selected_session_id), None)
selected_session_obj(sessions, id) ==
    LET hits == {i \in 1..Len(sessions) : sessions[i].session_id = id}
    IN  IF hits = {} THEN NoneSeq
        ELSE List(<< sessions[CHOOSE i \in hits : \A j \in hits : i <= j] >>)

\* get_finance_agent(user_id, session_id)
get_finance_agent(user_id, session_id) == [user_id |-> user_id, session_id |-> session_id]

\* load_session without the reset of the store
load_session_keep(new_agent, id, sessions) ==
    LET obj == selected_session_obj(sessions, id)
        has_runs == /\ Truthy(obj)
                    /\ obj.v[1].memory.t = "dict"
                    /\ obj.v[1].memory.runs.t # "missing"
        st == IF has_runs
              THEN reconstruct(messages, obj.v[1].memory.runs.v)
              ELSE [messages |-> messages, seen |-> {}, raised |-> FALSE]
    IN  [agent |-> new_agent, session_id |-> Str(id),
         messages |-> st.messages, raised |-> st.raised]

\* the body of the try block once the agent exists: the state it leaves
load_session(new_agent, id, sessions) ==
    LET obj == selected_session_obj(sessions, id)
        has_runs == /\ Truthy(obj)
                    /\ obj.v[1].memory.t = "dict"
                    /\ obj.v[1].memory.runs.t # "missing"
        st == IF has_runs
              THEN reconstruct(List(<< >>), obj.v[1].memory.runs.v)
              ELSE [messages |-> List(<< >>), seen |-> {}, raised |-> FALSE]
    IN  [agent |-> new_agent, session_id |-> Str(id),
         messages |-> st.messages, raised |-> st.raised]

\* an interaction that leaves the agent, the session id and the store alone
Idle(how, notice) ==
    /\ outcome' = how
    /\ sidebar' = notice
    /\ choice' = 0
    /\ selected_session_id' = ""
    /\ UNCHANGED << agentic_rag_agent, agentic_rag_agent_session_id, messages >>

\* session_selector_widget(agent, user_id): has_storage is agent.storage,
\* storage_raises and factory_raises are failures of the two collaborators,
\* k is the entry of the selectbox the user chose
session_selector_widget(user_id, has_storage, storage_raises, factory_raises, k) ==
    LET sessions == user_sessions(get_all_sessions, user_id)
        options == session_options(sessions)
    IN  /\ IF ~has_storage THEN Idle("no_storage", "")
           ELSE IF storage_raises THEN Idle("uncaught", "")
           ELSE IF options = << >> THEN Idle("no_sessions", "No saved sessions available.")
           ELSE /\ k \in 1..Len(options)
                /\ LET selected_session == options[k].display
                       id == resolve_session_id(options, selected_session)
                   IN  \E loaded \in {load_session(get_finance_agent(user_id, id),
                                                     id, sessions)} :
                       /\ choice' = k
                       /\ selected_session_id' = id
                       /\ IF agentic_rag_agent_session_id = Str(id)
                          THEN /\ outcome' = "unchanged"
                               /\ sidebar' = ""
                               /\ UNCHANGED << agentic_rag_agent,
                                               agentic_rag_agent_session_id, messages >>
                          ELSE IF factory_raises
                          THEN /\ outcome' = "error"
                               /\ sidebar' = "Error loading session"
                               /\ UNCHANGED << agentic_rag_agent,
                                               agentic_rag_agent_session_id, messages >>
                          ELSE /\ agentic_rag_agent' = loaded.agent
                               /\ agentic_rag_agent_session_id' = loaded.session_id
                               /\ messages' = loaded.messages
                               /\ outcome' = IF loaded.raised THEN "error" ELSE "rerun"
                               /\ sidebar' = IF loaded.raised
                                             THEN "Error loading session" ELSE ""
        /\ UNCHANGED << memory, session_data, chat_text, tools_in, titles >>

-----------------------------------------------------------------------------
(* Specification of the session selector over a persisted storage *)

Storage(m) == [s \in {"s1", "s2", "s3"} |-> IF s = "s1" THEN m ELSE Memory(List(OldLog))]

Fresh ==
    /\ agentic_rag_agent = get_finance_agent("alice", "s0")
    /\ agentic_rag_agent_session_id = None
    /\ messages = MissingSeq
    /\ choice = 0
    /\ selected_session_id = ""
    /\ outcome = "start"
    /\ sidebar = ""
    /\ chat_text = << >>
    /\ tools_in = << >>
    /\ titles = << >>

Init ==
    /\ \E m \in Memories(FewLogs) : memory = Storage(m)
    /\ session_data \in SessionDatas
    /\ Fresh

Next ==
    \/ \E user_id \in UserIds :
          session_selector_widget(user_id, FALSE, FALSE, FALSE, 1)
    \/ \E user_id \in UserIds :
          session_selector_widget(user_id, TRUE, TRUE, FALSE, 1)
    \/ \E user_id \in UserIds, factory_raises \in BOOLEAN, k \in 1..Len(SessionIds) :
          session_selector_widget(user_id, TRUE, FALSE, factory_raises, k)

Spec == Init /\ [][Next]_vars

-----------------------------------------------------------------------------
(* Specification of history reconstruction: the first session holds any    *)
(* run log and the user loads it                                           *)

InitHistory ==
    /\ \E m \in Memories(RunLogs) : memory = Storage(m)
    /\ session_data = [s \in {"s1", "s2", "s3"} |-> NoSessionData]
    /\ Fresh

NextHistory == session_selector_widget("alice", TRUE, FALSE, FALSE, 1)

SpecHistory == InitHistory /\ [][NextHistory]_vars

-----------------------------------------------------------------------------
(* Transcript exporter.  The document is the sequence of the pieces the    *)
(* function appends to chat_text; the two role labels are written without  *)
(* their leading pictographs.                                              *)

ExportHeader == "# Finance Agent - Chat History\n\n"
ToolsHeader == "#### Tools Used:\n"

role_label(msg) == IF msg.role = "agent" THEN "Assistant" ELSE "User"

message_piece(msg) == "### " \o role_label(msg) \o "\n" \o Format(msg.content) \o "\n\n"

\* tool.get("name", "Unknown Tool") / getattr(tool, "name", "Unknown Tool")
export_tool_name(tool) ==
    IF tool.name.t = "missing" THEN "Unknown Tool" ELSE Format(tool.name)

tool_pieces(tool_calls) ==
    IF Truthy(Get(tool_calls))
    THEN << ToolsHeader >> \o
         [i \in 1..Len(tool_calls.v) |-> "- " \o export_tool_name(tool_calls.v[i]) \o "\n"]
    ELSE << >>

RECURSIVE export_pieces(_)
export_pieces(msgs) ==
    IF msgs = << >> THEN << >>
    ELSE << message_piece(Head(msgs)) >> \o tool_pieces(Head(msgs).tool_calls)
         \o export_pieces(Tail(msgs))

\* export_chat_history(): the empty document when the store is absent
export_chat_history(store) ==
    IF store.t = "missing" THEN << >>
    ELSE << ExportHeader >> \o export_pieces(store.v)

-----------------------------------------------------------------------------
(* Tool call renderer.  A tool name is a sequence of characters; only the  *)
(* expander titles are modelled, not the expander bodies.                  *)

Lower == << "a", "b", "c", "d", "e", "f", "g", "h", "i", "j", "k", "l", "m",
            "n", "o", "p", "q", "r", "s", "t", "u", "v", "w", "x", "y", "z" >>
Upper == << "A", "B", "C", "D", "E", "F", "G", "H", "I", "J", "K", "L", "M",
            "N", "O", "P", "Q", "R", "S", "T", "U", "V", "W", "X", "Y", "Z" >>

IsLower(c) == \E i \in 1..Len(Lower) : Lower[i] = c
IsUpper(c) == \E i \in 1..Len(Upper) : Upper[i] = c
IsCased(c) == IsLower(c) \/ IsUpper(c)
ToUpper(c) == IF IsLower(c) THEN Upper[CHOOSE i \in 1..Len(Lower) : Lower[i] = c] ELSE c
ToLower(c) == IF IsUpper(c) THEN Lower[CHOOSE i \in 1..Len(Upper) : Upper[i] = c] ELSE c

\* str.replace("_", " ")
replace_underscores(name) ==
    [i \in 1..Len(name) |-> IF name[i] = "_" THEN " " ELSE name[i]]

\* str.title(): a cased character is upper case after an uncased one (or at
\* the start) and lower case after a cased one
title_case(name) ==
    [i \in 1..Len(name) |->
        IF ~IsCased(name[i]) THEN name[i]
        ELSE IF i > 1 /\ IsCased(name[i - 1]) THEN ToLower(name[i])
        ELSE ToUpper(name[i])]

UnknownTool == << "U", "n", "k", "n", "o", "w", "n", " ", "T", "o", "o", "l" >>
ToolCallTitle == << "T", "o", "o", "l", " ", "C", "a", "l", "l" >>
\* the pictograph and the blank every title starts with
TitlePrefix == << "<hammer and wrench>", " " >>

NoName == [t |-> "NoneType", v |-> << >>]
Name(chars) == [t |-> "str", v |-> chars]
TruthyName(x) == x.t = "str" /\ x.v # << >>

\* _tool_name = tool_call.tool_name or "Unknown Tool"
tool_name_or_default(tool_call) ==
    IF TruthyName(tool_call.tool_name) THEN tool_call.tool_name ELSE Name(UnknownTool)

\* the title of the expander of one tool call
expander_title(tool_call) ==
    LET _tool_name == tool_name_or_default(tool_call)
    IN  TitlePrefix \o
        (IF TruthyName(_tool_name)
         THEN title_case(replace_underscores(_tool_name.v))
         ELSE ToolCallTitle)

\* display_tool_calls(container, tools): the titles it renders, in order
display_tool_calls(tools) ==
    /\ tools_in' = tools
    /\ titles' = IF tools = << >> THEN << >>
                 ELSE [i \in 1..Len(tools) |-> expander_title(tools[i])]
    /\ outcome' = "rendered"
    /\ UNCHANGED << memory, session_data, agentic_rag_agent,
                    agentic_rag_agent_session_id, messages, choice,
                    selected_session_id, sidebar, chat_text >>

-----------------------------------------------------------------------------
(* Specification of the Message Store and its export *)

ChatRoles == {"user", "agent", "assistant"}
ChatContents == {Str("hi"), Str("yo")}
ChatTools == {NoneSeq, SomeTools, List(<< [t |-> "object", name |-> Missing] >>)}

Quiet == /\ memory = Storage(NoMemory)
         /\ session_data = [s \in {"s1", "s2", "s3"} |-> NoSessionData]
         /\ Fresh

\* a chat turn appends one message to the store
AddMessage(role, content, tool_calls) ==
    /\ messages.t = "list" => Len(messages.v) < MaxStore
    /\ messages' = add_message(messages, role, content, tool_calls, None)
    /\ chat_text' = << >>
    /\ outcome' = "added"
    /\ UNCHANGED << memory, session_data, agentic_rag_agent,
                    agentic_rag_agent_session_id, choice, selected_session_id,
                    sidebar, tools_in, titles >>

Export ==
    /\ chat_text' = export_chat_history(messages)
    /\ outcome' = "exported"
    /\ UNCHANGED << memory, session_data, agentic_rag_agent,
                    agentic_rag_agent_session_id, messages, choice,
                    selected_session_id, sidebar, tools_in, titles >>

NextExport ==
    \/ \E role \in ChatRoles, content \in ChatContents, tool_calls \in ChatTools :
          AddMessage(role, content, tool_calls)
    \/ Export

SpecExport == Quiet /\ [][NextExport]_vars

-----------------------------------------------------------------------------
(* Specification of the tool call renderer *)

NameChars == {"a", "b", "B", "_", "1"}
ToolNames == {NoName} \cup {Name(chars) : chars \in SeqsUpTo(NameChars, MaxNameLen)}
ToolLists == SeqsUpTo({[tool_name |-> n] : n \in ToolNames}, MaxTools)

NextRender == \E tools \in ToolLists : display_tool_calls(tools)

SpecRender == Quiet /\ [][NextRender]_vars

-----------------------------------------------------------------------------
(* Vocabulary of the properties *)

\* the (role, content) pair of a message
Pair(m) == [role |-> m.role, content |-> m.content]

StorePairs == [i \in 1..Len(messages.v) |-> Pair(messages.v[i])]

HasRuns(id) == memory[id].t = "dict" /\ memory[id].runs.t = "list"

\* the persisted run log of a session, empty when it has none
LogOf(id) == IF HasRuns(id) THEN memory[id].runs.v ELSE << >>

IsMultiRun(run) == run.messages.t = "list"
IsSingleRun(run) ==
    /\ run.messages.t = "missing"
    /\ run.message.t = "dict"
    /\ run.message.content.t # "missing"

\* a run log every run and entry of which can be read
WellFormed(log) ==
    \A r \in 1..Len(log) :
        /\ log[r].messages.t \in {"missing", "list"}
        /\ \A e \in 1..Len(log[r].messages.v) : log[r].messages.v[e].t = "dict"

\* the subsequence of s at the positions in idx
Pick(s, idx) ==
    LET Rank(i) == Cardinality({j \in idx : j <= i})
    IN  [n \in 1..Cardinality(idx) |-> s[CHOOSE i \in idx : Rank(i) = n]]

\* the candidate messages of one run, in persisted order
RunCandidates(run) ==
    IF IsMultiRun(run)
    THEN LET entries == run.messages.v
             shown == Pick(entries, {i \in 1..Len(entries) :
                                        /\ Truthy(Get(entries[i].content))
                                        /\ entries[i].role # "system"})
         IN  [i \in 1..Len(shown) |-> [role |-> shown[i].role, content |-> shown[i].content]]
    ELSE IF IsSingleRun(run)
    THEN << [role |-> "user", content |-> run.message.content] >> \o
         (IF Truthy(run.content)
          THEN << [role |-> "assistant", content |-> run.content] >> ELSE << >>)
    ELSE << >>

RECURSIVE Candidates(_)
Candidates(log) ==
    IF log = << >> THEN << >> ELSE RunCandidates(Head(log)) \o Candidates(Tail(log))

\* the first occurrence of every distinct element of s, in order
FirstOccurrences(s) ==
    Pick(s, {i \in 1..Len(s) : \A j \in 1..(i - 1) : s[j] # s[i]})

HasSystemEntry(log) ==
    \E r \in 1..Len(log) : /\ IsMultiRun(log[r])
                           /\ \E e \in 1..Len(log[r].messages.v) :
                                 log[r].messages.v[e].role = "system"

-----------------------------------------------------------------------------
(* Properties of history reconstruction (SpecHistory) *)

\* C1: after one history reconstruction the Message Store holds no two
\* Messages with the same (role, content) pair, whatever the run log.
C1_NoDuplicatePairs ==
    messages.t = "list" =>
        \A i, j \in 1..Len(messages.v) : i # j => Pair(messages.v[i]) # Pair(messages.v[j])

\* a run log that repeats a pair has been reconstructed into several messages
C1_Witness ==
    /\ outcome = "rerun"
    /\ Len(messages.v) >= 2
    /\ Len(Candidates(LogOf("s1"))) > Len(FirstOccurrences(Candidates(LogOf("s1"))))

\* C2: history reconstruction never appends a Message whose content is empty
\* (empty string or null), for multi-message entries and for both messages
\* of a single-exchange run.
C2_NoEmptyContent ==
    messages.t = "list" => \A i \in 1..Len(messages.v) : Truthy(messages.v[i].content)

\* C5: no Message with role "system" is in the Message Store after history
\* reconstruction, whatever the run log.
C5_NoSystemRole ==
    messages.t = "list" => \A i \in 1..Len(messages.v) : messages.v[i].role # "system"

\* a log with a system entry has been reconstructed into a non-empty store
C5_Witness ==
    /\ outcome = "rerun"
    /\ HasSystemEntry(LogOf("s1"))
    /\ messages.v # << >>

\* C6: a run log of one single-exchange run {message: {content: u},
\* content: a, tools: t} with non-empty u and a is reconstructed into
\* exactly the user Message u without tool calls followed by the assistant
\* Message a with tool_calls t.
C6_SingleExchange ==
    LET log == LogOf("s1")
    IN  (/\ outcome = "rerun"
         /\ Len(log) = 1
         /\ IsSingleRun(log[1])
         /\ Truthy(log[1].message.content)
         /\ Truthy(log[1].content))
        => messages.v =
              << [role |-> "user", content |-> log[1].message.content,
                  tool_calls |-> NoneSeq],
                 [role |-> "assistant", content |-> log[1].content,
                  tool_calls |-> Get(log[1].tools)] >>

\* the exchange hi / yo with a tool call has been loaded
C6_Witness ==
    /\ outcome = "rerun"
    /\ LogOf("s1") = << SingleRun(Str("hi"), Str("yo"), SomeTools) >>
    /\ Len(messages.v) = 2
    /\ messages.v[2].tool_calls = SomeTools

\* C9: the reconstructed store is the sequence of first occurrences of the
\* distinct (role, content) pairs of the candidate messages, in persisted
\* order; no candidate with an unseen pair is dropped.
C9_FirstOccurrences ==
    (outcome = "rerun" /\ WellFormed(LogOf("s1")))
        => StorePairs = FirstOccurrences(Candidates(LogOf("s1")))

-----------------------------------------------------------------------------
(* Properties of the session selector (Spec) *)

\* the set of (role, content) pairs a run log can contribute
CandidatePairs(log) == {Candidates(log)[i] : i \in 1..Len(Candidates(log))}

\* C3: an error at any point of a session switch (listing the sessions,
\* creating the agent, reconstructing a malformed run log) is caught and
\* reported, and the agent, the active session id and the Message Store
\* are what they were before the switch was attempted.
C3_FailedSwitchKeepsState ==
    [][outcome' \in {"error", "uncaught"} =>
          /\ outcome' = "error"
          /\ sidebar' = "Error loading session"
          /\ UNCHANGED << agentic_rag_agent, agentic_rag_agent_session_id, messages >>]_vars

\* C4: a successful switch makes the selected id the active session id,
\* binds the agent to it, and leaves in the store exactly what the selected
\* session's run log reconstructs to from an empty store: nothing when the
\* session has no persisted runs, and none of the messages that were in the
\* store before the switch.
C4_SwitchLoadsSelected ==
    [][outcome' = "rerun" =>
          /\ agentic_rag_agent_session_id # Str(selected_session_id')
          /\ agentic_rag_agent_session_id' = Str(selected_session_id')
          /\ agentic_rag_agent' = [user_id |-> "alice", session_id |-> selected_session_id']
          /\ messages' = reconstruct(List(<< >>), LogOf(selected_session_id')).messages
          /\ ~HasRuns(selected_session_id') => messages' = List(<< >>)
          /\ \A i \in 1..Len(messages'.v) :
                Pair(messages'.v[i]) \in CandidatePairs(LogOf(selected_session_id'))
          /\ \A i \in 1..Len(messages.v) :
                \/ Pair(messages.v[i]) \in CandidatePairs(LogOf(selected_session_id'))
                \/ \A j \in 1..Len(messages'.v) : messages'.v[j] # messages.v[i]]_vars

\* the first session has been loaded with messages of its own while the
\* second session, whose messages are in no other log, has its own entry
C4_Witness ==
    /\ outcome = "rerun"
    /\ selected_session_id = "s1"
    /\ messages.v # << >>
    /\ display_name(get_all_sessions[3]) # display_name(get_all_sessions[1])
    /\ \A i \in 1..Len(messages.v) : messages.v[i].content \notin
          {Str("old question"), Str("old answer")}

\* C10: choosing a session's entry in the selector resolves to that
\* session's own id, also when two sessions have the same display label.
C10_EntryResolvesToOwnId ==
    (outcome \in {"rerun", "unchanged", "error"} /\ choice > 0)
        => selected_session_id =
              user_sessions(get_all_sessions, "alice")[choice].session_id

-----------------------------------------------------------------------------
(* Property of the transcript exporter (SpecExport) *)

Contains(doc, piece) == \E i \in 1..Len(doc) : doc[i] = piece

\* C7: the export of a store of one user Message and one assistant Message
\* without tool calls contains the user label with the user content, the
\* assistant label with the assistant content and no "Tools Used" section,
\* whether the assistant role is stored as "agent" or as "assistant".
C7_ExportLabelsBothRoles ==
    (/\ outcome = "exported"
     /\ messages.t = "list"
     /\ Len(messages.v) = 2
     /\ messages.v[1].role = "user"
     /\ messages.v[2].role \in {"agent", "assistant"}
     /\ \A i \in 1..2 : messages.v[i].tool_calls = NoneSeq)
    => /\ Contains(chat_text, "### User\n" \o messages.v[1].content.v \o "\n\n")
       /\ Contains(chat_text, "### Assistant\n" \o messages.v[2].content.v \o "\n\n")
       /\ ~Contains(chat_text, ToolsHeader)

-----------------------------------------------------------------------------
(* Property of the tool call renderer (SpecRender) *)

\* C8: the title of a tool call is derived from its tool name, and is
\* "Tool Call" when the tool name is absent or empty.
C8_TitleFallback ==
    outcome = "rendered" =>
        /\ Len(titles) = Len(tools_in)
        /\ \A i \in 1..Len(tools_in) :
              titles[i] = TitlePrefix \o
                 (IF TruthyName(tools_in[i].tool_name)
                  THEN title_case(replace_underscores(tools_in[i].tool_name.v))
                  ELSE ToolCallTitle)

====
